---- MODULE Spec2Model ----
(***************************************************************************)
(* Model of main.py: the sqlite-backed TTL cache, the subscriptions table, *)
(* the alerts_sent marker table, the periodic alert_tick job, the provider *)
(* functions behind the commands and _form_from_events.                    *)
(*                                                                         *)
(* Time is the integer number of seconds returned by time.time().          *)
(* Python strings are sequences of one-character strings, so that string   *)
(* concatenation and equality are those of the program.                    *)
(* The three sqlite tables are sets of rows; the PRIMARY KEY of a table is *)
(* kept by the statements that write it (INSERT OR REPLACE), not by the    *)
(* representation.                                                         *)
(***************************************************************************)
EXTENDS Integers, Sequences, FiniteSets, TLC

VARIABLES
    now,            \* wall clock, seconds (time.time())
    cache,          \* table cache(k, v, expires_at)
    subscriptions,  \* table subscriptions(chat_id, enabled, sports, esports)
    alerts_sent,    \* table alerts_sent(id, sent_at)
    token,          \* whether PANDASCORE_TOKEN is configured
    tick,           \* the running alert_tick coroutine: its locals and its position
    outbox,         \* the calls made to context.bot.send_message, in order
    tickExit,       \* how the last alert_tick ended
    cmds,           \* number of .alert commands handled so far
    faults,         \* number of raised awaits and restarts so far
    got,            \* the last direct cache_get call: its key, the number of
                    \* cache_set calls on the key before it, its return value
    written,        \* per key, the last direct cache_set call: its payload, its
                    \* expiry, its ordinal and what it found in the table
    call,           \* the provider call a command handler is in, and how the
                    \* call before it ended
    tick2,          \* a second alert_tick coroutine, suspended in an await
                    \* while `tick` runs
    form,           \* the arguments and the result of the last
                    \* _form_from_events call
    built           \* the values an alert id is built from, and the id

vars == <<now, cache, subscriptions, alerts_sent, token, tick, outbox, tickExit,
          cmds, faults, got, written, call, tick2, form, built>>

\* Python's None, and a value that is present; for a string, None and the empty
\* string are the same value here: the program tests both with `or` / `if`
None == <<>>
Some(x) == <<x>>

----------------------------------------------------------------------------
(* Bounds of the model *)

\* the clock value of the initial state
T0 == 1000
\* seconds the clock may advance while the cache is driven directly
MaxCacheElapsed == 2
\* largest ttl_seconds passed to cache_set when the cache is driven directly
MaxTtl == 1
\* cache_set calls per key when the cache is driven directly
MaxSets == 2
\* seconds the clock may advance while the scheduler runs
MaxElapsed == 61
\* .alert commands handled in one behaviour
MaxCmds == 2
\* awaits that raise, and restarts, in one behaviour
MaxFaults == 1

\* the chats that send .alert commands
Chats == {1, 2}
\* the amounts by which the clock is observed to advance: the job interval
\* (run_repeating(interval=60)) and the interval plus a second
Steps == {60, 61}

----------------------------------------------------------------------------
(* Strings *)

Digits == <<"0", "1", "2", "3", "4", "5", "6", "7", "8", "9">>

\* str(int): the decimal digits of n
RECURSIVE str(_)
str(n) ==
    IF n < 0 THEN <<"-">> \o str(-n)
    ELSE IF n < 10 THEN <<Digits[n + 1]>>
    ELSE str(n \div 10) \o <<Digits[(n % 10) + 1]>>

----------------------------------------------------------------------------
(* cache table *)

\* json.dumps / json.loads of a payload that itself came out of json.loads
json_dumps(payload) == <<"json", payload>>
json_loads(text) == text[2]

\* cache_get that reports a miss on an expired row but leaves the row in place
cache_get_keep(tbl, k, t) ==
    LET rows == {r \in tbl : r.k = k} IN
    IF rows = {} THEN [ret |-> None, tbl |-> tbl]
    ELSE LET row == CHOOSE r \in rows : TRUE IN
         IF row.expires_at < t
         THEN [ret |-> None, tbl |-> tbl]
         ELSE [ret |-> Some(json_loads(row.v)), tbl |-> tbl]

\* cache_get(k) at time t: the value returned and the table it leaves
cache_get(tbl, k, t) ==
    LET rows == {r \in tbl : r.k = k} IN
    IF rows = {} THEN [ret |-> None, tbl |-> tbl]
    ELSE LET row == CHOOSE r \in rows : TRUE IN
         IF row.expires_at < t
         THEN [ret |-> None, tbl |-> {r \in tbl : r.k # k}]
         ELSE [ret |-> Some(json_loads(row.v)), tbl |-> tbl]

\* cache_set as a plain INSERT that leaves the old row of the key in place
cache_set_insert(tbl, k, payload, ttl_seconds, t) ==
    tbl \cup {[k |-> k, v |-> json_dumps(payload), expires_at |-> t + ttl_seconds]}

\* cache_set(k, payload, ttl_seconds) at time t: INSERT OR REPLACE on the key
cache_set(tbl, k, payload, ttl_seconds, t) ==
    {r \in tbl : r.k # k}
        \cup {[k |-> k, v |-> json_dumps(payload), expires_at |-> t + ttl_seconds]}

----------------------------------------------------------------------------
(* subscriptions table *)

Bit(b) == IF b THEN 1 ELSE 0

\* sub_set that rewrites the row with the column defaults
sub_set_defaults(tbl, chat_id, enabled) ==
    {r \in tbl : r.chat_id # chat_id}
        \cup {[chat_id |-> chat_id, enabled |-> Bit(enabled), sports |-> 1, esports |-> 0]}

\* sub_set(chat_id, enabled): INSERT OR REPLACE with COALESCE on sports, esports
sub_set(tbl, chat_id, enabled) ==
    LET old == {r \in tbl : r.chat_id = chat_id}
        sports == IF old = {} THEN 1 ELSE (CHOOSE r \in old : TRUE).sports
        esports == IF old = {} THEN 0 ELSE (CHOOSE r \in old : TRUE).esports
    IN  {r \in tbl : r.chat_id # chat_id}
            \cup {[chat_id |-> chat_id, enabled |-> Bit(enabled),
                   sports |-> sports, esports |-> esports]}

\* sub_toggle_domain that does not read the stored row
sub_toggle_domain_blind(tbl, chat_id, domain, on) ==
    {r \in tbl : r.chat_id # chat_id}
        \cup {[chat_id |-> chat_id, enabled |-> 0,
               sports |-> IF domain = "sports" THEN Bit(on) ELSE 1,
               esports |-> IF domain = "esports" THEN Bit(on) ELSE 0]}

\* sub_toggle_domain that inserts a missing row with enabled = 1
sub_toggle_domain_enabling(tbl, chat_id, domain, on) ==
    LET old == {r \in tbl : r.chat_id = chat_id}
        row == CHOOSE r \in old : TRUE
        sports0 == IF old # {} THEN row.sports ELSE 1
        esports0 == IF old # {} THEN row.esports ELSE 0
        enabled == IF old # {} THEN row.enabled ELSE 1
    IN  {r \in tbl : r.chat_id # chat_id}
            \cup {[chat_id |-> chat_id, enabled |-> enabled,
                   sports |-> IF domain = "sports" THEN Bit(on) ELSE sports0,
                   esports |-> IF domain = "esports" THEN Bit(on) ELSE esports0]}

\* sub_toggle_domain(chat_id, domain, on)
sub_toggle_domain(tbl, chat_id, domain, on) ==
    LET old == {r \in tbl : r.chat_id = chat_id}
        row == CHOOSE r \in old : TRUE
        sports0 == IF old # {} THEN row.sports ELSE 1
        esports0 == IF old # {} THEN row.esports ELSE 0
        enabled == IF old # {} THEN row.enabled ELSE 0
        sports == IF domain = "sports" THEN Bit(on) ELSE sports0
        esports == IF domain = "sports" THEN esports0
                   ELSE IF domain = "esports" THEN Bit(on) ELSE esports0
    IN  {r \in tbl : r.chat_id # chat_id}
            \cup {[chat_id |-> chat_id, enabled |-> enabled,
                   sports |-> sports, esports |-> esports]}

\* the rows of S in rowid (chat_id) order
RECURSIVE rows_by_chat(_)
rows_by_chat(S) ==
    IF S = {} THEN <<>>
    ELSE LET m == CHOOSE r \in S : \A q \in S : r.chat_id <= q.chat_id
         IN  <<m>> \o rows_by_chat(S \ {m})

\* the SELECT without its WHERE clause
get_subscriptions_all(tbl) ==
    rows_by_chat({[chat_id |-> r.chat_id, sports |-> r.sports, esports |-> r.esports] :
                    r \in tbl})

\* get_subscriptions_enabled(): SELECT chat_id, sports, esports WHERE enabled=1
get_subscriptions_enabled(tbl) ==
    rows_by_chat({[chat_id |-> r.chat_id, sports |-> r.sports, esports |-> r.esports] :
                    r \in {q \in tbl : q.enabled = 1}})

----------------------------------------------------------------------------
(* alerts_sent table *)

\* alert_sent that looks the id up under another key and so never finds it
alert_sent_never(tbl, alert_id) == FALSE

\* alert_sent(alert_id)
alert_sent(tbl, alert_id) == \E r \in tbl : r.id = alert_id

\* mark_alert_sent that writes nothing
mark_alert_sent_skip(tbl, alert_id, t) == tbl

\* mark_alert_sent(alert_id) at time t
mark_alert_sent(tbl, alert_id, t) ==
    {r \in tbl : r.id # alert_id} \cup {[id |-> alert_id, sent_at |-> t]}

----------------------------------------------------------------------------
(* Providers and their normalisation into MatchItem *)

Soccer == <<"S", "o", "c", "c", "e", "r">>
Basketball == <<"B", "a", "s", "k", "e", "t", "b", "a", "l", "l">>
lol == <<"l", "o", "l">>
valorant == <<"v", "a", "l", "o", "r", "a", "n", "t">>
cs2 == <<"c", "s", "2">>
dota2 == <<"d", "o", "t", "a", "2">>

\* the sports and the game keys alert_tick walks, in its order
SPORTS == <<Soccer, Basketball>>
GAMES == <<lol, valorant, cs2, dota2>>

\* ESPORT_SLUG
ESPORT_SLUG(game_key) ==
    CASE game_key = lol -> <<"l", "e", "a", "g", "u", "e", "-", "o", "f", "-",
                             "l", "e", "g", "e", "n", "d", "s">>
      [] game_key = cs2 -> <<"c", "s", "-", "g", "o">>
      [] game_key = valorant -> valorant
      [] game_key = dota2 -> <<"d", "o", "t", "a", "-", "2">>
      [] OTHER -> None

ALERT_MINUTES == 10
\* timedelta(minutes=ALERT_MINUTES), in seconds
lead == ALERT_MINUTES * 60
\* timedelta(minutes=1), in seconds
grace == 60
\* ttl_seconds of the today's-matches entries
TODAY_TTL == 60
\* utcoffset of Asia/Seoul, in seconds
KST_OFFSET == 9 * 3600

\* datetime.now(KST).strftime("%Y-%m-%d") at clock t; a calendar date is written
\* as the number of its day
date_ymd(t) == str((t + KST_OFFSET) \div 86400)

\* a well-formed timestamp string denoting the instant t
Stamp(t) == <<"ts", t>>

\* what eventsday.php serves for a sport over the modelled horizon
TsdbData(sport) ==
    IF sport = Soccer THEN
        [events |-> <<
            [strHomeTeam |-> <<"A", "j", "a", "x">>, strAwayTeam |-> <<"P", "S", "V">>,
             strTimestamp |-> Stamp(T0 + lead)],
            [strHomeTeam |-> <<"R", "o", "m", "a">>, strAwayTeam |-> <<"B", "a", "r", "i">>,
             strTimestamp |-> Stamp(T0 - 30)] >>]
    ELSE IF sport = Basketball THEN
        [events |-> <<
            [strHomeTeam |-> <<"N", "e", "t", "s">>, strAwayTeam |-> <<"H", "e", "a", "t">>,
             strTimestamp |-> Stamp(T0 + lead + 1)],
            [strHomeTeam |-> <<"J", "a", "z", "z">>, strAwayTeam |-> <<"S", "u", "n", "s">>,
             strTimestamp |-> None] >>]
    ELSE [events |-> None]

\* what /matches serves for a videogame slug over the modelled horizon
PsData(slug) ==
    IF slug = ESPORT_SLUG(lol) THEN
        << [name1 |-> <<"T", "1">>, name2 |-> <<"G", "2">>,
            begin_at |-> Stamp(T0 + lead + 60)] >>
    ELSE IF slug = ESPORT_SLUG(cs2) THEN
        << [name1 |-> <<"N", "a", "V", "i">>, name2 |-> None,
            begin_at |-> Stamp(T0 - 61)] >>
    ELSE IF slug = ESPORT_SLUG(valorant) THEN
        << [name1 |-> <<"F", "N", "C">>, name2 |-> <<"T", "L">>,
            begin_at |-> <<"s", "o", "o", "n">>] >>
    ELSE <<>>

\* str.strip(chars)
RECURSIVE lstrip(_, _)
lstrip(s, chars) ==
    IF s # <<>> /\ Head(s) \in chars THEN lstrip(Tail(s), chars) ELSE s
RECURSIVE rstrip(_, _)
rstrip(s, chars) ==
    IF s # <<>> /\ s[Len(s)] \in chars THEN rstrip(SubSeq(s, 1, Len(s) - 1), chars) ELSE s
strip(s, chars) == rstrip(lstrip(s, chars), chars)

Whitespace == {" "}
VS == <<" ", "v", "s", " ">>

\* a parser that takes the current time for a timestamp it cannot read
parse_time_now(ts) ==
    IF ts # None /\ Len(ts) = 2 /\ ts[1] = "ts" THEN Some(ts[2]) ELSE Some(now)

\* datetime.strptime(ts, "%Y-%m-%d %H:%M:%S").replace(tzinfo=UTC), and
\* datetime.fromisoformat(...).astimezone(UTC): the instant, or None
parse_time(ts) ==
    IF ts = None THEN None
    ELSE IF Len(ts) = 2 /\ ts[1] = "ts" THEN Some(ts[2])
    ELSE None

\* f"tsdb:eventsday:{sport}:{date_ymd}"
tsdb_cache_key(sport, ymd) ==
    <<"t", "s", "d", "b", ":", "e", "v", "e", "n", "t", "s", "d", "a", "y", ":">>
        \o sport \o <<":">> \o ymd

\* f"ps:today:{slug}:{day_ymd}"
ps_cache_key(slug, ymd) ==
    <<"p", "s", ":", "t", "o", "d", "a", "y", ":">> \o slug \o <<":">> \o ymd

\* sports_today: the MatchItem list built from the payload
sports_items(data) ==
    LET events == IF data.events = None THEN <<>> ELSE data.events
        item(e) ==
            LET home == strip(e.strHomeTeam, Whitespace)
                away == strip(e.strAwayTeam, Whitespace)
            IN  [title |-> strip(home \o VS \o away, {" ", "v", "s"}),
                 start_utc |-> parse_time(e.strTimestamp)]
    IN  [i \in 1..Len(events) |-> item(events[i])]

\* pandascore_matches_today: the MatchItem list built from the payload
ps_items(data) ==
    LET TBD == <<"T", "B", "D">>
        item(m) ==
            [title |-> (IF m.name1 = None THEN TBD ELSE m.name1) \o VS
                       \o (IF m.name2 = None THEN TBD ELSE m.name2),
             start_utc |-> parse_time(m.begin_at)]
    IN  [i \in 1..Len(data) |-> item(data[i])]

----------------------------------------------------------------------------
(* alert_tick: the per-match evaluation *)

\* the window test with an exclusive upper bound
in_window_open(start_utc, now_utc) ==
    /\ start_utc # None
    /\ LET dt == start_utc[1] IN
        /\ ~(dt < now_utc - grace)
        /\ now_utc <= dt /\ dt < now_utc + lead

\* the tests of alert_tick on a match start: has a start time, did not start
\* more than a minute ago, and now_utc <= dt <= now_utc + lead
in_window(start_utc, now_utc) ==
    /\ start_utc # None
    /\ LET dt == start_utc[1] IN
        /\ ~(dt < now_utc - grace)
        /\ now_utc <= dt /\ dt <= now_utc + lead

\* the id with the title and the start written one after the other
make_alert_id_nosep(kind, key, title, dt, chat_id) ==
    <<kind, ":">> \o key \o <<":">> \o title \o str(dt) \o <<":">> \o str(chat_id)

\* f"s:{sport}:{it.title}:{int(dt.timestamp())}:{chat_id}" and
\* f"e:{game_key}:{it.title}:{int(dt.timestamp())}:{chat_id}"
make_alert_id(kind, key, title, dt, chat_id) ==
    <<kind, ":">> \o key \o <<":">> \o title \o <<":">> \o str(dt) \o <<":">> \o str(chat_id)

----------------------------------------------------------------------------
(* Initial state: init_db() on a fresh database, no job running *)

\* the locals of alert_tick; reqs and calls count, per sport and game, the
\* calls of get_sport_events_cached / get_esport_events_cached and the calls
\* of sports_today / pandascore_matches_today made by the job so far; oi is
\* the place in outbox of the send_message call the job is suspended in
IdleTick ==
    [pc |-> "idle", subs |-> <<>>, now_utc |-> 0, today |-> <<>>,
     sports_lists |-> <<>>, esports_lists |-> <<>>,
     si |-> 0, phase |-> "none", di |-> 0, ii |-> 0, items |-> <<>>, alert_id |-> <<>>,
     reqs |-> <<>>, calls |-> <<>>, oi |-> 0]

Count(f, d) == IF d \in DOMAIN f THEN f[d] ELSE 0
Incr(f, d) == (d :> (Count(f, d) + 1)) @@ f

\* no provider call is in progress and none was made
IdleCall ==
    [pc |-> "idle", op |-> "", arg |-> <<>>, key |-> None, cached |-> "none",
     last |-> [op |-> "", key |-> None, outcome |-> "none"]]

\* no alert id is being built
IdleBuilt == [args |-> None, id |-> None]

\* _form_from_events was not called
IdleForm == [events |-> <<>>, team_name |-> <<>>, ret |-> None]

Init ==
    /\ now = T0
    /\ cache = {}
    /\ subscriptions = {}
    /\ alerts_sent = {}
    /\ token \in BOOLEAN
    /\ tick = IdleTick
    /\ outbox = <<>>
    /\ tickExit = "none"
    /\ cmds = 0
    /\ faults = 0
    /\ got = [k |-> <<>>, n |-> 0, ret |-> None]
    /\ written = <<>>
    /\ call = IdleCall
    /\ tick2 = IdleTick
    /\ form = IdleForm
    /\ built = IdleBuilt

\* the coroutine is suspended in an await, or no job runs: the points at which
\* the event loop runs other handlers and time passes
AtAwait == tick.pc \in {"idle", "fetch", "send"}

----------------------------------------------------------------------------
(* alert_tick *)

\* alert_tick up to its first loop iteration: load the enabled subscriptions,
\* return when there are none, read the clock and the date
TickStart ==
    /\ tick.pc = "idle"
    /\ LET subs == get_subscriptions_enabled(subscriptions) IN
       IF subs = <<>>
       THEN /\ tick' = tick
            /\ tickExit' = "no_subs"
       ELSE /\ tick' = [IdleTick EXCEPT !.pc = "domain", !.subs = subs, !.now_utc = now,
                                        !.today = date_ymd(now), !.si = 1,
                                        !.phase = "sports", !.di = 1]
            /\ tickExit' = "running"
    /\ UNCHANGED <<now, cache, subscriptions, alerts_sent, token, outbox, cmds, faults, got, written,
                   call, tick2, form, built>>

\* get_sport_events_cached without its dictionary: sports_today on every call
TickSportNoMemo ==
    /\ tick.pc = "domain" /\ tick.phase = "sports"
    /\ tick.subs[tick.si].sports = 1 /\ tick.di <= Len(SPORTS)
    /\ LET sport == SPORTS[tick.di]
           r == cache_get(cache, tsdb_cache_key(sport, tick.today), now)
       IN  /\ cache' = r.tbl
           /\ IF r.ret = None
              THEN tick' = [tick EXCEPT !.pc = "fetch", !.reqs = Incr(@, sport),
                                        !.calls = Incr(@, sport)]
              ELSE LET items == sports_items(r.ret[1]) IN
                   tick' = [tick EXCEPT !.pc = "items", !.items = items, !.ii = 1,
                                        !.sports_lists = (sport :> items) @@ @,
                                        !.reqs = Incr(@, sport), !.calls = Incr(@, sport)]
    /\ UNCHANGED <<now, subscriptions, alerts_sent, token, outbox, tickExit, cmds, faults,
                   got, written, call, tick2, form, built>>

\* get_sport_events_cached(sport) up to the await inside sports_today
TickSport ==
    /\ tick.pc = "domain" /\ tick.phase = "sports"
    /\ tick.subs[tick.si].sports = 1 /\ tick.di <= Len(SPORTS)
    /\ LET sport == SPORTS[tick.di] IN
       IF sport \in DOMAIN tick.sports_lists
       THEN /\ tick' = [tick EXCEPT !.pc = "items", !.items = tick.sports_lists[sport],
                                    !.ii = 1, !.reqs = Incr(@, sport)]
            /\ cache' = cache
       ELSE LET r == cache_get(cache, tsdb_cache_key(sport, tick.today), now) IN
            /\ cache' = r.tbl
            /\ IF r.ret = None
               THEN tick' = [tick EXCEPT !.pc = "fetch", !.reqs = Incr(@, sport),
                                         !.calls = Incr(@, sport)]
               ELSE LET items == sports_items(r.ret[1]) IN
                    tick' = [tick EXCEPT !.pc = "items", !.items = items, !.ii = 1,
                                         !.sports_lists = (sport :> items) @@ @,
                                         !.reqs = Incr(@, sport), !.calls = Incr(@, sport)]
    /\ UNCHANGED <<now, subscriptions, alerts_sent, token, outbox, tickExit, cmds, faults, got, written,
                   call, tick2, form, built>>

\* the esports block entered, and pandascore_matches_today run, without the
\* tests on PANDASCORE_TOKEN
TickEsportAnyway ==
    /\ tick.pc = "domain" /\ tick.phase = "esports"
    /\ tick.subs[tick.si].esports = 1 /\ tick.di <= Len(GAMES)
    /\ LET game_key == GAMES[tick.di]
           slug == ESPORT_SLUG(game_key)
       IN
       IF game_key \in DOMAIN tick.esports_lists
       THEN /\ tick' = [tick EXCEPT !.pc = "items", !.items = tick.esports_lists[game_key],
                                    !.ii = 1, !.reqs = Incr(@, game_key)]
            /\ cache' = cache
       ELSE LET r == cache_get(cache, ps_cache_key(slug, tick.today), now) IN
            /\ cache' = r.tbl
            /\ IF r.ret = None
               THEN tick' = [tick EXCEPT !.pc = "fetch", !.reqs = Incr(@, game_key),
                                         !.calls = Incr(@, game_key)]
               ELSE LET items == ps_items(r.ret[1]) IN
                    tick' = [tick EXCEPT !.pc = "items", !.items = items, !.ii = 1,
                                         !.esports_lists = (game_key :> items) @@ @,
                                         !.reqs = Incr(@, game_key),
                                         !.calls = Incr(@, game_key)]
    /\ UNCHANGED <<now, subscriptions, alerts_sent, token, outbox, tickExit, cmds, faults,
                   got, written, call, tick2, form, built>>

\* get_esport_events_cached(game_key) up to the await inside pandascore_matches_today
TickEsport ==
    /\ tick.pc = "domain" /\ tick.phase = "esports"
    /\ tick.subs[tick.si].esports = 1 /\ token /\ tick.di <= Len(GAMES)
    /\ LET game_key == GAMES[tick.di]
           slug == ESPORT_SLUG(game_key)
       IN
       IF game_key \in DOMAIN tick.esports_lists
       THEN /\ tick' = [tick EXCEPT !.pc = "items", !.items = tick.esports_lists[game_key],
                                    !.ii = 1, !.reqs = Incr(@, game_key)]
            /\ cache' = cache
       ELSE IF ~token \/ slug = None
       THEN /\ tick' = [tick EXCEPT !.pc = "items", !.items = <<>>, !.ii = 1,
                                    !.esports_lists = (game_key :> <<>>) @@ @,
                                    !.reqs = Incr(@, game_key),
                                    !.calls = IF token THEN Incr(@, game_key) ELSE @]
            /\ cache' = cache
       ELSE LET r == cache_get(cache, ps_cache_key(slug, tick.today), now) IN
            /\ cache' = r.tbl
            /\ IF r.ret = None
               THEN tick' = [tick EXCEPT !.pc = "fetch", !.reqs = Incr(@, game_key),
                                         !.calls = Incr(@, game_key)]
               ELSE LET items == ps_items(r.ret[1]) IN
                    tick' = [tick EXCEPT !.pc = "items", !.items = items, !.ii = 1,
                                         !.esports_lists = (game_key :> items) @@ @,
                                         !.reqs = Incr(@, game_key),
                                         !.calls = Incr(@, game_key)]
    /\ UNCHANGED <<now, subscriptions, alerts_sent, token, outbox, tickExit, cmds, faults, got, written,
                   call, tick2, form, built>>

\* await http_get_json(url) returns: cache_set, build the list, memoize it
TickFetchReturn ==
    /\ tick.pc = "fetch"
    /\ IF tick.phase = "sports"
       THEN LET sport == SPORTS[tick.di]
                data == TsdbData(sport)
                items == sports_items(data)
            IN  /\ cache' = cache_set(cache, tsdb_cache_key(sport, tick.today), data,
                                      TODAY_TTL, now)
                /\ tick' = [tick EXCEPT !.pc = "items", !.items = items, !.ii = 1,
                                        !.sports_lists = (sport :> items) @@ @]
       ELSE LET game_key == GAMES[tick.di]
                slug == ESPORT_SLUG(game_key)
                data == PsData(slug)
                items == ps_items(data)
            IN  /\ cache' = cache_set(cache, ps_cache_key(slug, tick.today), data,
                                      TODAY_TTL, now)
                /\ tick' = [tick EXCEPT !.pc = "items", !.items = items, !.ii = 1,
                                        !.esports_lists = (game_key :> items) @@ @]
    /\ UNCHANGED <<now, subscriptions, alerts_sent, token, outbox, tickExit, cmds, faults, got, written,
                   call, tick2, form, built>>

\* await http_get_json(url) raises: nothing in sports_today,
\* pandascore_matches_today or alert_tick catches it, the job ends
TickFetchRaise ==
    /\ faults < MaxFaults
    /\ faults' = faults + 1
    /\ tick.pc = "fetch"
    /\ tick' = IdleTick
    /\ tickExit' = "fetch_error"
    /\ UNCHANGED <<now, cache, subscriptions, alerts_sent, token, outbox, cmds, got, written,
                   call, tick2, form, built>>

\* the iteration that goes to send_message without mark_alert_sent
TickItemUnmarked ==
    /\ tick.pc = "items"
    /\ IF tick.ii > Len(tick.items)
       THEN /\ tick' = [tick EXCEPT !.pc = "domain", !.di = @ + 1, !.items = <<>>, !.ii = 0]
            /\ outbox' = outbox
       ELSE LET it == tick.items[tick.ii]
                chat_id == tick.subs[tick.si].chat_id
                kind == IF tick.phase = "sports" THEN "s" ELSE "e"
                key == IF tick.phase = "sports" THEN SPORTS[tick.di] ELSE GAMES[tick.di]
            IN
            IF ~in_window(it.start_utc, tick.now_utc)
            THEN /\ tick' = [tick EXCEPT !.ii = @ + 1]
                 /\ outbox' = outbox
            ELSE LET alert_id == make_alert_id(kind, key, it.title, it.start_utc[1], chat_id) IN
                 IF alert_sent(alerts_sent, alert_id)
                 THEN /\ tick' = [tick EXCEPT !.ii = @ + 1]
                      /\ outbox' = outbox
                 ELSE /\ outbox' = Append(outbox, [chat_id |-> chat_id, alert_id |-> alert_id,
                                                   status |-> "pending"])
                      /\ tick' = [tick EXCEPT !.pc = "send", !.alert_id = alert_id,
                                              !.oi = Len(outbox) + 1]
    /\ UNCHANGED <<now, cache, subscriptions, alerts_sent, token, tickExit, cmds, faults,
                   got, written, call, tick2, form, built>>

\* one iteration of `for it in items`, up to the await of send_message; past
\* the last item, the next sport or game
TickItem ==
    /\ tick.pc = "items"
    /\ IF tick.ii > Len(tick.items)
       THEN /\ tick' = [tick EXCEPT !.pc = "domain", !.di = @ + 1, !.items = <<>>, !.ii = 0]
            /\ UNCHANGED <<alerts_sent, outbox>>
       ELSE LET it == tick.items[tick.ii]
                chat_id == tick.subs[tick.si].chat_id
                kind == IF tick.phase = "sports" THEN "s" ELSE "e"
                key == IF tick.phase = "sports" THEN SPORTS[tick.di] ELSE GAMES[tick.di]
            IN
            IF ~in_window(it.start_utc, tick.now_utc)
            THEN /\ tick' = [tick EXCEPT !.ii = @ + 1]
                 /\ UNCHANGED <<alerts_sent, outbox>>
            ELSE LET alert_id == make_alert_id(kind, key, it.title, it.start_utc[1], chat_id) IN
                 IF alert_sent(alerts_sent, alert_id)
                 THEN /\ tick' = [tick EXCEPT !.ii = @ + 1]
                      /\ UNCHANGED <<alerts_sent, outbox>>
                 ELSE /\ alerts_sent' = mark_alert_sent(alerts_sent, alert_id, now)
                      /\ outbox' = Append(outbox, [chat_id |-> chat_id, alert_id |-> alert_id,
                                                   status |-> "pending"])
                      /\ tick' = [tick EXCEPT !.pc = "send", !.alert_id = alert_id,
                                              !.oi = Len(outbox) + 1]
    /\ UNCHANGED <<now, cache, subscriptions, token, tickExit, cmds, faults, got, written,
                   call, tick2, form, built>>

\* await context.bot.send_message(...) returns
TickSendReturn ==
    /\ tick.pc = "send"
    /\ outbox' = [outbox EXCEPT ![tick.oi].status = "delivered"]
    /\ tick' = [tick EXCEPT !.pc = "items", !.ii = @ + 1, !.alert_id = <<>>, !.oi = 0]
    /\ UNCHANGED <<now, cache, subscriptions, alerts_sent, token, tickExit, cmds, faults, got, written,
                   call, tick2, form, built>>

\* a failed delivery that takes the marker back
TickSendRaiseUnmark ==
    /\ faults < MaxFaults
    /\ faults' = faults + 1
    /\ tick.pc = "send"
    /\ outbox' = [outbox EXCEPT ![tick.oi].status = "failed"]
    /\ alerts_sent' = {r \in alerts_sent : r.id # tick.alert_id}
    /\ tick' = IdleTick
    /\ tickExit' = "send_error"
    /\ UNCHANGED <<now, cache, subscriptions, token, cmds, got, written,
                   call, tick2, form, built>>

\* await context.bot.send_message(...) raises: alert_tick does not catch it
TickSendRaise ==
    /\ faults < MaxFaults
    /\ faults' = faults + 1
    /\ tick.pc = "send"
    /\ outbox' = [outbox EXCEPT ![tick.oi].status = "failed"]
    /\ tick' = IdleTick
    /\ tickExit' = "send_error"
    /\ UNCHANGED <<now, cache, subscriptions, alerts_sent, token, cmds, got, written,
                   call, tick2, form, built>>

\* `if sports_on` is false or the sports are exhausted: on to the esports block
TickEndSports ==
    /\ tick.pc = "domain" /\ tick.phase = "sports"
    /\ ~(tick.subs[tick.si].sports = 1 /\ tick.di <= Len(SPORTS))
    /\ tick' = [tick EXCEPT !.phase = "esports", !.di = 1]
    /\ UNCHANGED <<now, cache, subscriptions, alerts_sent, token, outbox, tickExit, cmds,
                   faults, got, written,
                   call, tick2, form, built>>

\* `if esports_on and PANDASCORE_TOKEN` is false or the games are exhausted: the
\* next row of subs, or the end of the job
TickEndSub ==
    /\ tick.pc = "domain" /\ tick.phase = "esports"
    /\ ~(tick.subs[tick.si].esports = 1 /\ token /\ tick.di <= Len(GAMES))
    /\ IF tick.si < Len(tick.subs)
       THEN /\ tick' = [tick EXCEPT !.si = @ + 1, !.phase = "sports", !.di = 1]
            /\ tickExit' = tickExit
       ELSE /\ tick' = IdleTick
            /\ tickExit' = "done"
    /\ UNCHANGED <<now, cache, subscriptions, alerts_sent, token, outbox, cmds, faults, got, written,
                   call, tick2, form, built>>

\* the process is stopped and started again: the coroutine and its locals are
\* lost, the database file stays
Restart ==
    /\ faults < MaxFaults
    /\ faults' = faults + 1
    /\ tick.pc \in {"fetch", "send"}
    /\ tick' = IdleTick
    /\ tickExit' = "restart"
    /\ UNCHANGED <<now, cache, subscriptions, alerts_sent, token, outbox, cmds, got, written,
                   call, tick2, form, built>>

----------------------------------------------------------------------------
(* cmd_alert *)

\* ".alert on" / ".alert off"
CmdAlertSet(chat_id, enabled) ==
    /\ AtAwait /\ cmds < MaxCmds
    /\ subscriptions' = sub_set(subscriptions, chat_id, enabled)
    /\ cmds' = cmds + 1
    /\ UNCHANGED <<now, cache, alerts_sent, token, tick, outbox, tickExit, faults, got, written,
                   call, tick2, form, built>>

\* ".alert sports on/off" / ".alert esports on/off"
CmdAlertDomain(chat_id, domain, on) ==
    /\ AtAwait /\ cmds < MaxCmds
    /\ subscriptions' = sub_toggle_domain(subscriptions, chat_id, domain, on)
    /\ cmds' = cmds + 1
    /\ UNCHANGED <<now, cache, alerts_sent, token, tick, outbox, tickExit, faults, got, written,
                   call, tick2, form, built>>

CmdAlert ==
    \E chat_id \in Chats, on \in BOOLEAN :
        \/ CmdAlertSet(chat_id, on)
        \/ \E domain \in {"sports", "esports"} : CmdAlertDomain(chat_id, domain, on)

----------------------------------------------------------------------------
(* the clock *)

Advance ==
    /\ tick.pc = "idle"
    /\ \E d \in Steps :
        /\ now + d <= T0 + MaxElapsed
        /\ now' = now + d
    /\ UNCHANGED <<cache, subscriptions, alerts_sent, token, tick, outbox, tickExit, cmds,
                   faults, got, written,
                   call, tick2, form, built>>

Next ==
    \/ TickStart
    \/ TickSport
    \/ TickEsport
    \/ TickFetchReturn
    \/ TickFetchRaise
    \/ TickItem
    \/ TickSendReturn
    \/ TickSendRaise
    \/ TickEndSports
    \/ TickEndSub
    \/ Restart
    \/ CmdAlert
    \/ Advance

Spec == Init /\ [][Next]_vars

----------------------------------------------------------------------------
(* The cache driven directly, as sports_today, sports_search_team,            *)
(* sports_last_events and pandascore_matches_today drive it: cache_get and    *)
(* cache_set on a few keys with a few payloads and ttls, and a clock that     *)
(* advances by one second.                                                    *)

CacheKeys == {tsdb_cache_key(Soccer, date_ymd(T0)), tsdb_cache_key(Basketball, date_ymd(T0))}
Payloads == {TsdbData(Soccer), TsdbData(Basketball)}
HasRow(tbl, k) == \E r \in tbl : r.k = k

CacheSetCall(k, payload, ttl_seconds) ==
    /\ (IF k \in DOMAIN written THEN written[k].n ELSE 0) < MaxSets
    /\ cache' = cache_set(cache, k, payload, ttl_seconds, now)
    /\ written' =
         (k :> [payload |-> payload, expires_at |-> now + ttl_seconds,
                n |-> IF k \in DOMAIN written THEN written[k].n + 1 ELSE 1,
                found |-> IF HasRow(cache, k) THEN "row"
                          ELSE IF k \in DOMAIN written THEN "dropped" ELSE "nothing"])
         @@ written
    /\ UNCHANGED <<now, subscriptions, alerts_sent, token, tick, outbox, tickExit, cmds,
                   faults, got,
                   call, tick2, form, built>>

CacheGetCall(k) ==
    /\ LET r == cache_get(cache, k, now) IN
        /\ cache' = r.tbl
        /\ got' = [k |-> k, n |-> IF k \in DOMAIN written THEN written[k].n ELSE 0,
                   ret |-> r.ret]
    /\ UNCHANGED <<now, subscriptions, alerts_sent, token, tick, outbox, tickExit, cmds,
                   faults, written,
                   call, tick2, form, built>>

CacheClock ==
    /\ now < T0 + MaxCacheElapsed
    /\ now' = now + 1
    /\ UNCHANGED <<cache, subscriptions, alerts_sent, token, tick, outbox, tickExit, cmds,
                   faults, got, written,
                   call, tick2, form, built>>

CacheSet == \E k \in CacheKeys, payload \in Payloads, ttl \in 0..MaxTtl : CacheSetCall(k, payload, ttl)
CacheGet == \E k \in CacheKeys : CacheGetCall(k)

CacheNext ==
    \/ CacheSet
    \/ CacheGet
    \/ CacheClock

CacheSpec == Init /\ [][CacheNext]_vars

----------------------------------------------------------------------------
(* Claims about the cache, under CacheSpec *)

\* C3 (as claimed): a cache_get(k) that finds a row with now >= expires_at
\* returns None and deletes the row, the instant now = expires_at included.
C3_AbsentFromExpiry ==
    [][\A k \in CacheKeys :
          (CacheGetCall(k) /\ \E r \in cache : r.k = k /\ now >= r.expires_at)
              => (got'.ret = None /\ ~HasRow(cache', k))]_vars

\* C4: a cache_get(k) made after cache_set(k, v, ttl) and before the expiry of
\* the entry returns v, the payload of the last cache_set on k; and the table
\* never holds two rows for one key.
C4_OneRowPerKey ==
    \A r \in cache, q \in cache : r.k = q.k => r = q
C4_GetAfterSet ==
    /\ []C4_OneRowPerKey
    /\ [][\A k \in CacheKeys :
             (CacheGetCall(k) /\ k \in DOMAIN written /\ now < written[k].expires_at)
                 => got'.ret = Some(written[k].payload)]_vars

\* C4 happens: a key is set a second time over the row of the first, then read
\* back before its expiry, and the read yields the second payload.
C4_Witness ==
    \E k \in CacheKeys :
        /\ k \in DOMAIN written /\ written[k].n = 2 /\ written[k].found = "row"
        /\ got.k = k /\ got.n = 2 /\ got.ret = Some(written[k].payload)
        /\ now < written[k].expires_at

\* C5: rows leave the cache table only through a cache_get that finds them
\* expired (expires_at < now), which returns None and removes the row; a value
\* returned by cache_get is always the payload of the last cache_set on the
\* key, never an older one.
C5_LazyExpiry ==
    [][/\ \A r \in cache :
            ~HasRow(cache', r.k)
                => (CacheGetCall(r.k) /\ r.expires_at < now /\ got'.ret = None)
       /\ \A k \in CacheKeys :
            (CacheGetCall(k) /\ \E r \in cache : r.k = k /\ r.expires_at < now)
                => (got'.ret = None /\ ~HasRow(cache', k))
       /\ \A k \in CacheKeys :
            (CacheGetCall(k) /\ got'.ret # None)
                => (k \in DOMAIN written /\ got'.ret = Some(written[k].payload))]_vars

\* C5 happens: an expired row was dropped by a read, the key was filled again,
\* and the next read returned the new payload.
C5_Witness ==
    \E k \in CacheKeys :
        /\ k \in DOMAIN written /\ written[k].found = "dropped"
        /\ got.k = k /\ got.n = written[k].n /\ got.ret = Some(written[k].payload)

----------------------------------------------------------------------------
(* Claims about the scheduler and the subscriptions, under Spec *)

Attempts(alert_id) == {i \in DOMAIN outbox : outbox[i].alert_id = alert_id}
Delivered(alert_id) == {i \in Attempts(alert_id) : outbox[i].status = "delivered"}

\* the item alert_tick is looking at, and the alert id it builds for it
CurItem == tick.items[tick.ii]
CurAlertId ==
    make_alert_id(IF tick.phase = "sports" THEN "s" ELSE "e",
                  IF tick.phase = "sports" THEN SPORTS[tick.di] ELSE GAMES[tick.di],
                  CurItem.title, CurItem.start_utc[1], tick.subs[tick.si].chat_id)
Evaluating == tick.pc = "items" /\ tick.ii <= Len(tick.items)

\* C1: send_message is invoked at most once for every alert id, over all the
\* jobs of a behaviour, restarts included.
C1_AtMostOnce ==
    \A i \in DOMAIN outbox, j \in DOMAIN outbox :
        outbox[i].alert_id = outbox[j].alert_id => i = j

\* C1 happens: a later job (at a later clock value) has just evaluated a match
\* in its window whose marker an earlier job wrote, and skipped it.
C1_Witness ==
    /\ tick.pc = "items" /\ tick.ii > 1
    /\ LET it == tick.items[tick.ii - 1] IN
        /\ in_window(it.start_utc, tick.now_utc)
        /\ \E r \in alerts_sent :
            /\ r.sent_at < tick.now_utc
            /\ r.id = make_alert_id("s", SPORTS[tick.di], it.title, it.start_utc[1],
                                    tick.subs[tick.si].chat_id)
            /\ tick.phase = "sports"
            /\ Cardinality(Attempts(r.id)) = 1
    /\ tickExit = "running"

\* C2 (as claimed): every tuple the scheduler has taken up (its marker is
\* written and its send_message call has returned or raised) has been
\* delivered exactly once. By C9 no later job attempts the tuple again, so a
\* tuple that is not delivered when its call is over is never delivered.
C2_ExactlyOnce ==
    \A r \in alerts_sent :
        (\E i \in Attempts(r.id) : outbox[i].status # "pending")
            => Cardinality(Delivered(r.id)) = 1

\* C2 (amended): every tuple is delivered at most once; every send_message call
\* is for a tuple whose marker is written; and a tuple whose call raised or was
\* cut off by a restart stays undelivered.
C2_AtMostOnceDelivered ==
    /\ \A i \in DOMAIN outbox :
        /\ alert_sent(alerts_sent, outbox[i].alert_id)
        /\ Cardinality(Delivered(outbox[i].alert_id)) <= 1
        /\ outbox[i].status = "failed" => Delivered(outbox[i].alert_id) = {}
        /\ (outbox[i].status = "pending" /\ tick.alert_id # outbox[i].alert_id)
              => Delivered(outbox[i].alert_id) = {}

\* C2 happens: a delivery failed, and a later job over the same match ran to
\* its end: the tuple has its marker and no delivery.
C2_Witness ==
    /\ tickExit = "done"
    /\ \E i \in DOMAIN outbox :
        /\ outbox[i].status = "failed"
        /\ \E r \in alerts_sent : r.id = outbox[i].alert_id /\ r.sent_at < now
        /\ Delivered(outbox[i].alert_id) = {}

\* C6: alert_tick sends for a match only if now_utc <= start <= now_utc + lead;
\* a match that starts exactly at now_utc + lead and has no marker is sent, a
\* match that starts one second later is not.
C6_LeadWindow ==
    [][(TickItem /\ Evaluating) =>
          LET start == CurItem.start_utc IN
          /\ tick'.pc = "send"
                => (start # None /\ tick.now_utc <= start[1]
                                 /\ start[1] <= tick.now_utc + lead)
          /\ (start # None /\ start[1] = tick.now_utc + lead
                /\ ~alert_sent(alerts_sent, CurAlertId)) => tick'.pc = "send"
          /\ (start # None /\ start[1] = tick.now_utc + lead + 1) => tick'.pc = "items"]_vars

\* C6 happens: a notification is in flight for a match that starts exactly at
\* now_utc + lead.
C6_Witness ==
    /\ tick.pc = "send"
    /\ CurItem.start_utc = Some(tick.now_utc + lead)
    /\ tick.alert_id = CurAlertId

\* C7 (as claimed): a match that started 61 seconds before now_utc is not sent,
\* and a match that started 30 seconds before now_utc and has no marker is sent.
C7_Grace ==
    [][(TickItem /\ Evaluating /\ CurItem.start_utc # None) =>
          LET dt == CurItem.start_utc[1] IN
          /\ dt = tick.now_utc - 61 => tick'.pc = "items"
          /\ (dt = tick.now_utc - 30 /\ ~alert_sent(alerts_sent, CurAlertId))
                => tick'.pc = "send"]_vars

Row(tbl, chat_id) == CHOOSE r \in tbl : r.chat_id = chat_id
HasSub(tbl, chat_id) == \E r \in tbl : r.chat_id = chat_id

\* C8: on an existing row, sub_set changes only enabled and sub_toggle_domain
\* changes only the flag of its domain; the row stays the only row of the chat.
C8_SiblingColumns ==
    [][\A c \in Chats : HasSub(subscriptions, c) =>
          LET old == Row(subscriptions, c)
              new == Row(subscriptions', c)
              one == Cardinality({r \in subscriptions' : r.chat_id = c}) = 1
          IN
          /\ \A en \in BOOLEAN : CmdAlertSet(c, en) =>
                /\ one /\ new.enabled = Bit(en)
                /\ new.sports = old.sports /\ new.esports = old.esports
          /\ \A on \in BOOLEAN : CmdAlertDomain(c, "sports", on) =>
                /\ one /\ new.sports = Bit(on)
                /\ new.enabled = old.enabled /\ new.esports = old.esports
          /\ \A on \in BOOLEAN : CmdAlertDomain(c, "esports", on) =>
                /\ one /\ new.esports = Bit(on)
                /\ new.enabled = old.enabled /\ new.sports = old.sports]_vars

\* C8 happens: a chat that was switched on (sports on by default) and had
\* esports turned on holds enabled, sports and esports all on.
C8_Witness ==
    /\ cmds = 2
    /\ \E r \in subscriptions : r.enabled = 1 /\ r.sports = 1 /\ r.esports = 1

\* C9: every send_message call is made with the marker of its alert id already
\* written; no step removes a marker, a failed delivery included; and no call
\* follows a failed call for the same alert id.
C9_MarkerSurvivesFailure ==
    /\ [](\A i \in DOMAIN outbox :
            /\ alert_sent(alerts_sent, outbox[i].alert_id)
            /\ outbox[i].status = "failed"
                  => \A j \in DOMAIN outbox : j > i
                        => outbox[j].alert_id # outbox[i].alert_id)
    /\ [][/\ \A r \in alerts_sent : alert_sent(alerts_sent', r.id)
          /\ TickSendRaise => alert_sent(alerts_sent', tick.alert_id)]_vars

\* C9 happens: a job has just evaluated, inside its window, a match whose
\* delivery failed in an earlier job, found the marker and skipped it.
C9_Witness ==
    /\ tick.pc = "items" /\ tick.ii > 1 /\ tick.phase = "sports"
    /\ LET it == tick.items[tick.ii - 1] IN
        /\ in_window(it.start_utc, tick.now_utc)
        /\ LET id == make_alert_id("s", SPORTS[tick.di], it.title, it.start_utc[1],
                                   tick.subs[tick.si].chat_id)
           IN  /\ alert_sent(alerts_sent, id)
               /\ \E i \in DOMAIN outbox :
                     outbox[i].alert_id = id /\ outbox[i].status = "failed"
               /\ Cardinality(Attempts(id)) = 1

\* C10 (as claimed): when the fetch inside sports_today or
\* pandascore_matches_today raises, the job goes on: it takes the list of that
\* sport or game to be empty and keeps its rows of subscriptions.
C10_FetchFailureContained ==
    [][TickFetchRaise =>
          /\ tick'.pc = "items" /\ tick'.items = <<>>
          /\ tick'.subs = tick.subs /\ tick'.si = tick.si /\ tick'.di = tick.di]_vars

----------------------------------------------------------------------------
(* The providers as the command handlers call them (cmd_today, cmd_team,      *)
(* cmd_match): one call at a time, each call a coroutine that is suspended    *)
(* in `await http_get_json(url)` between its cache_get and its cache_set.     *)

UPPER == <<"A", "B", "C", "D", "E", "F", "G", "H", "I", "J", "K", "L", "M",
           "N", "O", "P", "Q", "R", "S", "T", "U", "V", "W", "X", "Y", "Z">>
LOWER == <<"a", "b", "c", "d", "e", "f", "g", "h", "i", "j", "k", "l", "m",
           "n", "o", "p", "q", "r", "s", "t", "u", "v", "w", "x", "y", "z">>

\* str.lower()
lower(s) ==
    [i \in DOMAIN s |->
        IF \E j \in DOMAIN UPPER : UPPER[j] = s[i]
        THEN LOWER[CHOOSE j \in DOMAIN UPPER : UPPER[j] = s[i]]
        ELSE s[i]]

\* the ttl_seconds of sports_search_team and of sports_last_events
SEARCH_TTL == 3600
LAST_TTL == 300

\* f"tsdb:searchteam:{team_name.lower()}"
searchteam_cache_key(team_name) ==
    <<"t", "s", "d", "b", ":", "s", "e", "a", "r", "c", "h", "t", "e", "a", "m", ":">> \o lower(team_name)

\* f"tsdb:lastevents:{team_id}"
lastevents_cache_key(team_id) ==
    <<"t", "s", "d", "b", ":", "l", "a", "s", "t", "e", "v", "e", "n", "t", "s", ":">> \o team_id

Ajax == <<"A", "j", "a", "x">>
AJAX == <<"A", "J", "A", "X">>
AjaxId == <<"1", "3", "3">>

\* what searchteams.php serves for a team name
SearchData(team_name) ==
    IF lower(team_name) = lower(Ajax)
    THEN [teams |-> << [idTeam |-> AjaxId, strTeam |-> Ajax] >>]
    ELSE [teams |-> None]

\* what eventslast.php serves for a team id
LastData(team_id) ==
    IF team_id = AjaxId
    THEN [results |-> <<
            [strHomeTeam |-> Ajax, strAwayTeam |-> <<"P", "S", "V">>,
             intHomeScore |-> Some(2), intAwayScore |-> Some(1)] >>]
    ELSE [results |-> None]

\* the provider functions that go through the cache
sports_today == "sports_today"
sports_search_team == "sports_search_team"
sports_last_events == "sports_last_events"
pandascore_matches_today == "pandascore_matches_today"
\* the provider function that does not
esports_analyze_match == "esports_analyze_match"

CachedProviders ==
    {sports_today, sports_search_team, sports_last_events, pandascore_matches_today}

\* the calls the command handlers make
ProviderArgs ==
    { [op |-> sports_today, arg |-> Soccer],
      [op |-> sports_search_team, arg |-> Ajax],
      [op |-> sports_search_team, arg |-> AJAX],
      [op |-> sports_last_events, arg |-> AjaxId],
      [op |-> pandascore_matches_today, arg |-> lol],
      [op |-> esports_analyze_match, arg |-> lol] }

\* the cache_key of a provider function, None for esports_analyze_match, which
\* has none
provider_cache_key(op, arg, t) ==
    CASE op = sports_today -> tsdb_cache_key(arg, date_ymd(t))
      [] op = sports_search_team -> searchteam_cache_key(arg)
      [] op = sports_last_events -> lastevents_cache_key(arg)
      [] op = pandascore_matches_today -> ps_cache_key(ESPORT_SLUG(arg), date_ymd(t))
      [] OTHER -> None

provider_ttl(op) ==
    CASE op = sports_today -> TODAY_TTL
      [] op = sports_search_team -> SEARCH_TTL
      [] op = sports_last_events -> LAST_TTL
      [] OTHER -> TODAY_TTL

\* what http_get_json returns to a provider function
provider_data(op, arg) ==
    CASE op = sports_today -> TsdbData(arg)
      [] op = sports_search_team -> SearchData(arg)
      [] op = sports_last_events -> LastData(arg)
      [] OTHER -> PsData(ESPORT_SLUG(arg))

\* a provider function from its first line to its first await, or to its
\* return when it does not fetch
ProviderCall(op, arg) ==
    /\ call.pc = "idle"
    /\ IF op \in {pandascore_matches_today, esports_analyze_match}
          /\ (~token \/ ESPORT_SLUG(arg) = None)
       THEN /\ call' = [IdleCall EXCEPT !.last = [op |-> op, key |-> None,
                                                  outcome |-> "no_token"]]
            /\ cache' = cache
       ELSE IF op = esports_analyze_match
       THEN /\ call' = [pc |-> "fetch", op |-> op, arg |-> arg, key |-> None,
                        cached |-> "none", last |-> call.last]
            /\ cache' = cache
       ELSE LET k == provider_cache_key(op, arg, now)
                r == cache_get(cache, k, now)
            IN  /\ cache' = r.tbl
                /\ IF r.ret = None
                   THEN call' = [pc |-> "fetch", op |-> op, arg |-> arg, key |-> k,
                                 cached |-> "miss", last |-> call.last]
                   ELSE call' = [IdleCall EXCEPT !.last = [op |-> op, key |-> k,
                                                           outcome |-> "hit"]]
    /\ UNCHANGED <<now, subscriptions, alerts_sent, token, tick, outbox, tickExit, cmds,
                   faults, got, written, tick2, form, built>>

\* await http_get_json(url) returns to the provider function
ProviderFetchReturn ==
    /\ call.pc = "fetch"
    /\ cache' = IF call.op = esports_analyze_match THEN cache
                ELSE cache_set(cache, call.key, provider_data(call.op, call.arg),
                               provider_ttl(call.op), now)
    /\ call' = [IdleCall EXCEPT !.last = [op |-> call.op, key |-> call.key,
                                          outcome |-> "fetched"]]
    /\ UNCHANGED <<now, subscriptions, alerts_sent, token, tick, outbox, tickExit, cmds,
                   faults, got, written, tick2, form, built>>

\* a failed fetch that stores an empty payload under the key
ProviderFetchRaiseEmpty ==
    /\ call.pc = "fetch"
    /\ cache' = IF call.op = esports_analyze_match THEN cache
                ELSE cache_set(cache, call.key, [events |-> None], provider_ttl(call.op), now)
    /\ call' = [IdleCall EXCEPT !.last = [op |-> call.op, key |-> call.key,
                                          outcome |-> "raised"]]
    /\ UNCHANGED <<now, subscriptions, alerts_sent, token, tick, outbox, tickExit, cmds,
                   faults, got, written, tick2, form, built>>

\* await http_get_json(url) raises: the provider function is left before its
\* cache_set, on_message catches the exception
ProviderFetchRaise ==
    /\ call.pc = "fetch"
    /\ call' = [IdleCall EXCEPT !.last = [op |-> call.op, key |-> call.key,
                                          outcome |-> "raised"]]
    /\ UNCHANGED <<now, cache, subscriptions, alerts_sent, token, tick, outbox, tickExit,
                   cmds, faults, got, written, tick2, form, built>>

ProviderCalls == \E pa \in ProviderArgs : ProviderCall(pa.op, pa.arg)

ProviderNext ==
    \/ ProviderCalls
    \/ ProviderFetchReturn
    \/ ProviderFetchRaise
    \/ Advance

ProviderSpec == Init /\ [][ProviderNext]_vars

----------------------------------------------------------------------------
(* Claims about the provider functions, under ProviderSpec *)

\* C11: a fetch that raises in sports_today, sports_search_team,
\* sports_last_events or pandascore_matches_today leaves the cache table as it
\* was, with no row for the key of the call; and the next call for that key
\* goes to the provider again.
C11_NoNegativeCaching ==
    [][/\ (call.pc = "fetch" /\ call.op \in CachedProviders
              /\ call'.last.outcome = "raised")
            => (cache' = cache /\ ~HasRow(cache', call.key))
       /\ \A pa \in ProviderArgs :
            (/\ ProviderCall(pa.op, pa.arg) /\ pa.op \in CachedProviders
             /\ call.last.outcome = "raised"
             /\ call.last.key = provider_cache_key(pa.op, pa.arg, now))
            => (call'.pc = "fetch" /\ call'.cached = "miss")]_vars

\* C11 happens: the call that follows a failed call for the same key is at its
\* fetch.
C11_Witness ==
    /\ call.pc = "fetch" /\ call.op \in CachedProviders
    /\ call.last.outcome = "raised" /\ call.last.key = call.key

\* C12 (as claimed): every provider function that is at its fetch made a
\* cache_get in that call, and the cache_get returned None.
C12_FetchOnlyOnMiss ==
    call.pc = "fetch" => call.cached = "miss"

----------------------------------------------------------------------------
(* Claims about the lists of a job, under Spec *)

\* the sport or game the job is working on, and the list memoized for it
CurDomain == IF tick.phase = "sports" THEN SPORTS[tick.di] ELSE GAMES[tick.di]
CurLists == IF tick.phase = "sports" THEN tick.sports_lists ELSE tick.esports_lists
Domains == {SPORTS[i] : i \in DOMAIN SPORTS} \cup {GAMES[i] : i \in DOMAIN GAMES}
\* the list of d is wanted by a row of subs
Needed(d) ==
    \E i \in DOMAIN tick.subs :
        \/ d \in {SPORTS[j] : j \in DOMAIN SPORTS} /\ tick.subs[i].sports = 1
        \/ d \in {GAMES[j] : j \in DOMAIN GAMES} /\ tick.subs[i].esports = 1 /\ token

\* C13: in a job, sports_today / pandascore_matches_today is called once for a
\* sport or game that a row of subs asked for, however many rows asked, and
\* never for one no row asked for; every row is evaluated against the list the
\* one call produced; a job that runs to its end has obtained exactly once the
\* list of every sport and game a row of subs needs.
C13_OncePerTick ==
    /\ [](\A d \in Domains :
            Count(tick.calls, d) = IF Count(tick.reqs, d) >= 1 THEN 1 ELSE 0)
    /\ []((tick.pc \in {"items", "send"})
            => (CurDomain \in DOMAIN CurLists /\ tick.items = CurLists[CurDomain]))
    /\ [][/\ \A d \in DOMAIN tick.sports_lists :
               tick'.pc # "idle" => tick'.sports_lists[d] = tick.sports_lists[d]
          /\ \A d \in DOMAIN tick.esports_lists :
               tick'.pc # "idle" => tick'.esports_lists[d] = tick.esports_lists[d]
          /\ (tick.pc # "idle" /\ tick'.pc = "idle" /\ tickExit' = "done")
               => \A d \in Domains : Count(tick.calls, d) = IF Needed(d) THEN 1 ELSE 0]_vars

\* C13 happens: the second row of subs is being evaluated against the Soccer
\* list that the one sports_today call of the job produced.
C13_Witness ==
    /\ tick.pc = "items" /\ tick.si = 2 /\ tick.phase = "sports"
    /\ Count(tick.reqs, Soccer) = 2 /\ Count(tick.calls, Soccer) = 1
    /\ tick.items = tick.sports_lists[Soccer] /\ Len(tick.items) = 2

----------------------------------------------------------------------------
(* Claims about the start of a job, under Spec *)

NoneEnabled == \A r \in subscriptions : r.enabled = 0

\* C14: a job that starts while no row of subscriptions has enabled = 1 ends
\* at once: it is at no fetch and at no send_message, and it leaves the cache
\* table, the alerts_sent table and the calls to send_message as they were.
C14_NoSubscribersNoOp ==
    [][(TickStart /\ NoneEnabled)
          => /\ tick' = IdleTick /\ tickExit' = "no_subs"
             /\ UNCHANGED <<cache, alerts_sent, outbox, subscriptions>>]_vars

\* C14 happens: the last job ended on an empty list of rows although the
\* table holds a row with sports on, one of whose matches is in the window.
C14_Witness ==
    /\ tickExit = "no_subs" /\ NoneEnabled
    /\ \E r \in subscriptions : r.sports = 1
    /\ in_window(sports_items(TsdbData(Soccer))[1].start_utc, now)
    /\ cache = {} /\ alerts_sent = {} /\ outbox = <<>>

----------------------------------------------------------------------------
(* Claims about matches without a start time, under Spec *)

\* the timestamp the provider served for item i of the list of sport or game d
RawStart(d, i) ==
    IF d \in {SPORTS[j] : j \in DOMAIN SPORTS}
    THEN TsdbData(d).events[i].strTimestamp
    ELSE PsData(ESPORT_SLUG(d))[i].begin_at
\* the timestamp is missing, or it is not one the parser reads
Unreadable(ts) == ts = None \/ Len(ts) # 2 \/ ts[1] # "ts"

\* C15: the evaluation of a match whose timestamp is missing or unreadable
\* writes no marker and calls send_message for nothing, whoever the
\* subscriber and whatever the clock; the job goes on to the next match.
C15_AbsentStartInvisible ==
    [][(TickItem /\ Evaluating /\ Unreadable(RawStart(CurDomain, tick.ii)))
          => /\ UNCHANGED <<alerts_sent, outbox>>
             /\ tick'.pc = "items" /\ tick'.ii = tick.ii + 1]_vars

\* C15 happens: a job has evaluated the Basketball match that has no
\* timestamp, or the valorant match whose timestamp does not parse, and is past
\* it with no marker written for the sport or game.
C15_Witness ==
    /\ tick.pc = "items" /\ tick.ii > 1
    /\ Unreadable(RawStart(CurDomain, tick.ii - 1))
    /\ tick.items[tick.ii - 1].start_utc = None
    /\ \A r \in alerts_sent : r.id[1] = "s" /\ SubSeq(r.id, 3, 2 + Len(Soccer)) = Soccer

\* the same for the match whose timestamp is there and does not parse
C15_WitnessUnparsable ==
    C15_Witness /\ RawStart(CurDomain, tick.ii - 1) # None

----------------------------------------------------------------------------
(* Claims about the creation of a subscriptions row, under Spec *)

\* C16: the first command of a chat creates its one row: `.alert on/off`
\* with sports = 1 and esports = 0, `.alert sports on/off` and `.alert
\* esports on/off` with the other flag at that default and enabled = 0, so
\* that the chat is not among the rows a job loads.
C16_CreationDefaults ==
    [][\A c \in Chats : ~HasSub(subscriptions, c) =>
          LET new == {r \in subscriptions' : r.chat_id = c}
              loaded == get_subscriptions_enabled(subscriptions')
          IN
          /\ \A en \in BOOLEAN : CmdAlertSet(c, en) =>
                new = {[chat_id |-> c, enabled |-> Bit(en), sports |-> 1, esports |-> 0]}
          /\ \A on \in BOOLEAN : CmdAlertDomain(c, "sports", on) =>
                /\ new = {[chat_id |-> c, enabled |-> 0, sports |-> Bit(on), esports |-> 0]}
                /\ \A i \in DOMAIN loaded : loaded[i].chat_id # c
          /\ \A on \in BOOLEAN : CmdAlertDomain(c, "esports", on) =>
                /\ new = {[chat_id |-> c, enabled |-> 0, sports |-> 1, esports |-> Bit(on)]}
                /\ \A i \in DOMAIN loaded : loaded[i].chat_id # c]_vars

\* C16 happens: the only command so far was `.alert esports on` of a chat: its
\* row has enabled = 0 and sports = 1, and the job that ran after it loaded no
\* row.
C16_Witness ==
    /\ cmds = 1 /\ tickExit = "no_subs"
    /\ \E c \in Chats :
        subscriptions = {[chat_id |-> c, enabled |-> 0, sports |-> 1, esports |-> 1]}

----------------------------------------------------------------------------
(* Claims about a missing PANDASCORE_TOKEN *)

PsPrefix == <<"p", "s", ":">>
IsPsKey(k) == Len(k) >= Len(PsPrefix) /\ SubSeq(k, 1, Len(PsPrefix)) = PsPrefix
Games == {GAMES[i] : i \in DOMAIN GAMES}

\* C17: without PANDASCORE_TOKEN a job never enters the esports block: it
\* asks for no list of a game and calls pandascore_matches_today for none, the
\* cache is neither read nor written under a "ps:" key and holds no such
\* row, and there is no marker and no send_message call with an "e:" id; the
\* sports block is not affected: a job that runs to its end has obtained the
\* list of every sport a loaded row has on.
C17_NoTokenShortCircuit ==
    /\ [](~token =>
            /\ tick.pc # "idle" => tick.phase = "sports" \/ tick.pc = "domain"
            /\ \A g \in Games : Count(tick.reqs, g) = 0 /\ Count(tick.calls, g) = 0
            /\ tick.esports_lists = <<>>
            /\ \A r \in cache : ~IsPsKey(r.k)
            /\ \A r \in alerts_sent : r.id[1] # "e"
            /\ \A i \in DOMAIN outbox : outbox[i].alert_id[1] # "e")
    /\ [][~token =>
            /\ (tick.pc = "domain" /\ tick.phase = "esports") => cache' = cache
            /\ (tick.pc # "idle" /\ tick'.pc = "idle" /\ tickExit' = "done")
                 => \A i \in DOMAIN SPORTS :
                       Count(tick.calls, SPORTS[i]) = IF Needed(SPORTS[i]) THEN 1 ELSE 0]_vars

\* C17 happens: without the token, a job over a row with sports and esports on
\* ran to its end and the Soccer notification of the row was delivered.
C17_Witness ==
    /\ ~token /\ tickExit = "done"
    /\ \E r \in subscriptions : r.enabled = 1 /\ r.sports = 1 /\ r.esports = 1
    /\ \E i \in DOMAIN outbox :
          outbox[i].status = "delivered" /\ outbox[i].alert_id[1] = "s"
    /\ \E r \in cache : r.k = tsdb_cache_key(Soccer, date_ymd(now))

\* pandascore_matches_today and esports_analyze_match themselves, under
\* ProviderSpec: without the token they return before any cache_get and any
\* fetch.
C17_ProviderShortCircuit ==
    /\ [](~token => /\ call.op \notin {pandascore_matches_today, esports_analyze_match}
                    /\ \A r \in cache : ~IsPsKey(r.k))
    /\ [][\A pa \in ProviderArgs :
            (~token /\ pa.op \in {pandascore_matches_today, esports_analyze_match}
                /\ ProviderCall(pa.op, pa.arg))
            => (cache' = cache /\ call'.pc = "idle" /\ call'.last.outcome = "no_token")]_vars

----------------------------------------------------------------------------
(* _form_from_events, as cmd_team and sports_analyze_match call it: on the    *)
(* events of sports_last_events(t.get("idTeam")) and the strTeam of the team  *)
(* that sports_search_team found.                                             *)

\* events[:5]
FORM_N == 5
\* longest history served by eventslast.php
MaxHistory == 6

\* int(x) of a str of decimal digits; None where int raises ValueError
RECURSIVE digits_value(_)
digits_value(s) ==
    IF s = <<>> THEN 0
    ELSE 10 * digits_value(SubSeq(s, 1, Len(s) - 1))
         + (CHOOSE d \in 0..9 : Digits[d + 1] = s[Len(s)])
py_int(s) ==
    IF s = <<>> \/ \E i \in DOMAIN s : \A d \in 0..9 : Digits[d + 1] # s[i]
    THEN None
    ELSE Some(digits_value(s))

\* the body of `for e in events[:5]` for one event: the letter appended to
\* form and the line appended to lines, or nothing on `continue`
form_of_event(e, team) ==
    LET h == e.strHomeTeam
        a == e.strAwayTeam
        hs == e.intHomeScore
        as_ == e.intAwayScore
    IN  IF hs = None \/ as_ = None THEN <<>>
        ELSE IF py_int(hs) = None \/ py_int(as_) = None THEN <<>>
        ELSE LET is_home == (lower(h) = team)
                 gf == IF is_home THEN py_int(hs)[1] ELSE py_int(as_)[1]
                 ga == IF is_home THEN py_int(as_)[1] ELSE py_int(hs)[1]
             IN  << [letter |-> IF gf > ga THEN "W" ELSE IF gf < ga THEN "L" ELSE "D",
                     line |-> h \o <<" ">> \o str(py_int(hs)[1]) \o <<"-">>
                              \o str(py_int(as_)[1]) \o <<" ">> \o a] >>

RECURSIVE form_scan(_, _)
form_scan(events, team) ==
    IF events = <<>> THEN <<>>
    ELSE form_of_event(Head(events), team) \o form_scan(Tail(events), team)

\* _form_from_events(events, team_name): the form string, and the lines before
\* they are joined
_form_from_events(events, team_name) ==
    LET team == lower(team_name)
        first == SubSeq(events, 1, IF Len(events) < FORM_N THEN Len(events) ELSE FORM_N)
        out == form_scan(first, team)
    IN  [form |-> IF out = <<>> THEN <<"N", "/", "A">>
                  ELSE [i \in DOMAIN out |-> out[i].letter],
         lines |-> [i \in DOMAIN out |-> out[i].line]]

PSV == <<"P", "S", "V">>
PsvId == <<"1", "3", "4">>
OtherId == <<"9", "9", "9">>

\* the records eventslast.php serves for the team AjaxId: a home win, an away
\* defeat, a home win under another spelling of the team's name, an away
\* defeat at a team of another id whose name is `ajax`, a match without
\* scores, and a match whose score is not a number
TeamEvents ==
    { [idHomeTeam |-> AjaxId, idAwayTeam |-> PsvId, strHomeTeam |-> Ajax, strAwayTeam |-> PSV,
       intHomeScore |-> <<"2">>, intAwayScore |-> <<"1">>],
      [idHomeTeam |-> PsvId, idAwayTeam |-> AjaxId, strHomeTeam |-> PSV, strAwayTeam |-> Ajax,
       intHomeScore |-> <<"2">>, intAwayScore |-> <<"1">>],
      [idHomeTeam |-> AjaxId, idAwayTeam |-> PsvId,
       strHomeTeam |-> <<"A", "F", "C", " ">> \o Ajax, strAwayTeam |-> PSV,
       intHomeScore |-> <<"2">>, intAwayScore |-> <<"1">>],
      [idHomeTeam |-> OtherId, idAwayTeam |-> AjaxId,
       strHomeTeam |-> lower(Ajax), strAwayTeam |-> Ajax,
       intHomeScore |-> <<"1">>, intAwayScore |-> <<"0">>],
      [idHomeTeam |-> AjaxId, idAwayTeam |-> PsvId, strHomeTeam |-> Ajax, strAwayTeam |-> PSV,
       intHomeScore |-> None, intAwayScore |-> None],
      [idHomeTeam |-> AjaxId, idAwayTeam |-> PsvId, strHomeTeam |-> Ajax, strAwayTeam |-> PSV,
       intHomeScore |-> <<"a", "b", "d">>, intAwayScore |-> <<"1">>] }

Histories == UNION {[1..n -> TeamEvents] : n \in 0..MaxHistory}

FormInit ==
    /\ now = T0
    /\ cache = {}
    /\ subscriptions = {}
    /\ alerts_sent = {}
    /\ token \in BOOLEAN
    /\ tick = IdleTick
    /\ outbox = <<>>
    /\ tickExit = "none"
    /\ cmds = 0
    /\ faults = 0
    /\ got = [k |-> <<>>, n |-> 0, ret |-> None]
    /\ written = <<>>
    /\ call = IdleCall
    /\ tick2 = IdleTick
    /\ built = IdleBuilt
    /\ \E events \in Histories :
          form = [events |-> events, team_name |-> SearchData(Ajax).teams[1].strTeam,
                  ret |-> None]

\* form, lines = _form_from_events(ev, team_name)
FormCall ==
    /\ form.ret = None
    /\ form' = [form EXCEPT !.ret = Some(_form_from_events(form.events, form.team_name))]
    /\ UNCHANGED <<now, cache, subscriptions, alerts_sent, token, tick, outbox, tickExit,
                   cmds, faults, got, written, call, tick2, built>>

FormNext == FormCall

FormSpec == FormInit /\ [][FormNext]_vars

----------------------------------------------------------------------------
(* Claims about the recent form, under FormSpec *)

\* the record has a known result: both scores are there and are numbers
Qualifying(e) ==
    /\ e.intHomeScore # None /\ e.intAwayScore # None
    /\ py_int(e.intHomeScore) # None /\ py_int(e.intAwayScore) # None
QualifyingCount(events) == Cardinality({i \in DOMAIN events : Qualifying(events[i])})
\* the number of results _form_from_events counted
Counted == Len(form.ret[1].lines)

\* C18 (as claimed): _form_from_events counts FORM_N results whenever the
\* history holds at least FORM_N records with a known result, and all of them
\* when it holds fewer.
C18_CountsQualifying ==
    form.ret # None =>
        Counted = IF QualifyingCount(form.events) >= FORM_N THEN FORM_N
                  ELSE QualifyingCount(form.events)

\* the side of the team in a record, by id, and the result of the record for
\* that side
LetterById(e, team_id) ==
    LET hs == py_int(e.intHomeScore)[1]
        as_ == py_int(e.intAwayScore)[1]
        gf == IF e.idHomeTeam = team_id THEN hs ELSE as_
        ga == IF e.idHomeTeam = team_id THEN as_ ELSE hs
    IN  IF gf > ga THEN "W" ELSE IF gf < ga THEN "L" ELSE "D"

\* C19 (as claimed): every result that _form_from_events counts is the result
\* for the side on which the team's id stands in the record, whatever the
\* spelling of the names in the record.
C19_SideById ==
    form.ret # None =>
        LET first == SubSeq(form.events, 1,
                            IF Len(form.events) < FORM_N THEN Len(form.events) ELSE FORM_N)
            idx == {i \in DOMAIN first : Qualifying(first[i])}
            rank(i) == Cardinality({j \in idx : j <= i})
        IN  \A i \in idx : form.ret[1].form[rank(i)] = LetterById(first[i], AjaxId)

----------------------------------------------------------------------------
(* Two alert_tick coroutines on one event loop: `tick` is the one the loop    *)
(* runs, `tick2` the other, suspended in an await (or not started). The loop  *)
(* leaves a coroutine only at an await, and resumes the other one there.      *)

\* the event loop leaves the coroutine it runs at its await and resumes the
\* other one, or has room to start a second job
Switch ==
    /\ AtAwait
    /\ tick # tick2
    /\ tick' = tick2
    /\ tick2' = tick
    /\ UNCHANGED <<now, cache, subscriptions, alerts_sent, token, outbox, tickExit, cmds,
                   faults, got, written, call, form, built>>

OverlapNext ==
    \/ TickStart
    \/ TickSport
    \/ TickEsport
    \/ TickFetchReturn
    \/ TickItem
    \/ TickSendReturn
    \/ TickEndSports
    \/ TickEndSub
    \/ Switch
    \/ CmdAlert
    \/ Advance

OverlapSpec == Init /\ [][OverlapNext]_vars

----------------------------------------------------------------------------
(* Claims about overlapping jobs, under OverlapSpec *)

\* C20: whatever the interleaving of two jobs and the .alert commands at the
\* awaits, a send_message call is made in the very step that finds the marker
\* of its alert id absent and writes it; so the two jobs are never both in
\* the send_message of one id, and no id has two send_message calls.
C20_CheckAndMarkAtomic ==
    /\ [][/\ Len(outbox') >= Len(outbox)
          /\ \A i \in DOMAIN outbox' \ DOMAIN outbox :
                /\ ~alert_sent(alerts_sent, outbox'[i].alert_id)
                /\ alert_sent(alerts_sent', outbox'[i].alert_id)
                /\ Len(outbox') = Len(outbox) + 1
          /\ \A r \in alerts_sent' \ alerts_sent :
                /\ Len(outbox') = Len(outbox) + 1
                /\ outbox'[Len(outbox')].alert_id = r.id]_vars
    /\ []((tick.pc = "send" /\ tick2.pc = "send") => tick.alert_id # tick2.alert_id)
    /\ [](\A i \in DOMAIN outbox :
            Cardinality({j \in DOMAIN outbox : outbox[j].alert_id = outbox[i].alert_id}) = 1)

\* C20 happens: a job is suspended in the send_message of an alert id, and a
\* job that started a minute later, while the first was suspended, has
\* evaluated the same match for the same chat inside its own window, found
\* the marker and gone on.
C20_Witness ==
    /\ tick2.pc = "send" /\ tick.pc = "items" /\ tick.ii > 1
    /\ tick.now_utc > tick2.now_utc
    /\ tick.phase = "sports"
    /\ LET it == tick.items[tick.ii - 1] IN
        /\ in_window(it.start_utc, tick.now_utc)
        /\ tick2.alert_id = make_alert_id("s", SPORTS[tick.di], it.title, it.start_utc[1],
                                          tick.subs[tick.si].chat_id)
        /\ Cardinality(Attempts(tick2.alert_id)) = 1

----------------------------------------------------------------------------
(* Claims about the rows a job works on, under Spec *)

\* the flag of the row of a chat that the kind of an alert id goes by
DomainFlag(r, alert_id) == IF alert_id[1] = "s" THEN r.sports ELSE r.esports

\* C21 (as claimed): at every send_message call of a job the subscriptions
\* table holds, for the chat of the call, a row with enabled = 1 and the flag
\* of the domain of the alert at 1, whatever .alert commands were handled
\* while the job was suspended in an await.
C21_DispatchMatchesStore ==
    [][\A i \in DOMAIN outbox' \ DOMAIN outbox :
          \E r \in subscriptions :
              /\ r.chat_id = outbox'[i].chat_id
              /\ r.enabled = 1
              /\ DomainFlag(r, outbox'[i].alert_id) = 1]_vars

----------------------------------------------------------------------------
(* The alert id of alert_tick on its own: built from one sport or game, one   *)
(* title, one start and one chat, with titles that hold the separator and     *)
(* digits.                                                                    *)

\* longest title
MaxTitle == 3
\* the characters of a title: a letter, the separator of the id, a digit
TitleChars == {"A", ":", "1"}
Titles == UNION {[1..n -> TitleChars] : n \in 0..MaxTitle}
\* int(dt.timestamp()) and chat_id: numbers of one and of two digits
IdStarts == {1, 11}
IdChats == {1, 11}
\* the prefix and the sport or game of the two f-strings
IdKeys ==
    { [kind |-> "s", key |-> Soccer], [kind |-> "s", key |-> Basketball],
      [kind |-> "e", key |-> lol] }

IdArgs ==
    { [kind |-> kk.kind, key |-> kk.key, title |-> title, dt |-> dt, chat_id |-> chat_id] :
        kk \in IdKeys, title \in Titles, dt \in IdStarts, chat_id \in IdChats }

IdOf(a) == make_alert_id(a.kind, a.key, a.title, a.dt, a.chat_id)

IdInit ==
    /\ now = T0
    /\ cache = {}
    /\ subscriptions = {}
    /\ alerts_sent = {}
    /\ token \in BOOLEAN
    /\ tick = IdleTick
    /\ outbox = <<>>
    /\ tickExit = "none"
    /\ cmds = 0
    /\ faults = 0
    /\ got = [k |-> <<>>, n |-> 0, ret |-> None]
    /\ written = <<>>
    /\ call = IdleCall
    /\ tick2 = IdleTick
    /\ form = IdleForm
    /\ \E a \in IdArgs : built = [args |-> Some(a), id |-> None]

\* alert_id = f"..."
IdBuild ==
    /\ built.args # None /\ built.id = None
    /\ built' = [built EXCEPT !.id = Some(IdOf(built.args[1]))]
    /\ UNCHANGED <<now, cache, subscriptions, alerts_sent, token, tick, outbox, tickExit,
                   cmds, faults, got, written, call, tick2, form>>

IdNext == IdBuild

IdSpec == IdInit /\ [][IdNext]_vars

----------------------------------------------------------------------------
(* Claims about the alert id, under IdSpec *)

\* C22: the alert id built from a kind, a sport or game, a title, a start and
\* a chat is the id of no other such five values, titles with ":" and digits
\* included; so alert_sent finds, in a table that holds the marker of the one,
\* no marker for the other.
C22_AlertIdInjective ==
    built.id # None =>
        \A b \in IdArgs : b # built.args[1] =>
            /\ IdOf(b) # built.id[1]
            /\ ~alert_sent(mark_alert_sent({}, built.id[1], now), IdOf(b))

IsPrefix(s, t) == Len(s) < Len(t) /\ SubSeq(t, 1, Len(s)) = s

\* C22 happens: an id was built for a title that holds the separator and a
\* digit, and the id of other values (a shorter title, the same sport and
\* chat) is the beginning of it.
C22_Witness ==
    /\ built.id # None
    /\ \E i \in DOMAIN built.args[1].title : built.args[1].title[i] = ":"
    /\ \E i \in DOMAIN built.args[1].title : built.args[1].title[i] = "1"
    /\ \E b \in IdArgs :
        /\ b # built.args[1] /\ b.key = built.args[1].key
        /\ IsPrefix(IdOf(b), built.id[1])

====
